---- MODULE Spec2Model ----
(***************************************************************************)
(* Scheduled multi-platform publishing: the scheduler service, its cron    *)
(* tick, the job processor, the platform adapters and their wrapper, the  *)
(* read operations, and the HTTP handlers that schedule, edit and cancel   *)
(* posts.                                                                  *)
(*                                                                         *)
(* Every `await` of the JavaScript code is a point where other callbacks   *)
(* may run, so a handler is cut into one action per awaited store or       *)
(* adapter call; the code between two awaits is one atomic step.           *)
(***************************************************************************)
EXTENDS Integers, Sequences, FiniteSets, TLC

(* ------------------------------ bounds --------------------------------- *)
MaxPosts == 2
MaxTime == 1
MaxTicks == 2
MaxTargets == 2
MaxLoads == 1
MaxCancels == 1
MaxInits == 1

Ids == 1..MaxPosts
Times == 0..MaxTime
TickIds == 1..MaxTicks

(* --------------------------- program constants ------------------------- *)
\* the platform names of the adapter table
Platforms == {"facebook", "twitter", "instagram", "linkedin", "tiktok", "youtube"}
\* the platforms whose service function asks for media
MediaPlatforms == {"instagram", "tiktok", "youtube"}
\* a name that is in no table: rejected by validation and by the wrapper
UnknownPlatform == "myspace"
\* a Date field that is not set
NoDate == -1
\* statuses the store can hold; "none" stands for "no such document"
Statuses == {"draft", "scheduled", "publishing", "published", "failed", "cancelled"}

\* posts            the SocialMediaPost collection, by document id
\* scheduledJobs    the ids in SchedulerService.scheduledJobs
\* isInitialized    SchedulerService.isInitialized
\* timers           how many cron schedules startScheduler has started
\* now              the clock
\* ticks            the cron callbacks in flight: where each is in
\*                  processScheduledPosts, its duePosts still to do, the
\*                  postResults of the post at hand and what each awaited
\*                  postToPlatform returned (outcomes); firedPaused is whether
\*                  the callback fired between a pause and the next resume
\* pendingSchedule  schedulePost calls between their create and their return
\* pendingCancel    cancelScheduledPost calls between their update and return
\* loads            loadScheduledPosts calls between their find and their end
\* paused           pauseScheduler was called and resumeScheduler not since
\*                  (the code keeps no such flag)
\* invoked          per post, the platforms whose adapter has been invoked for
\*                  it (history, read only by the properties)
\* replies          the last answer of getStatus, that of getSchedulerStats,
\*                  and what a getSchedulerStats call in progress has so far
VARIABLES posts, scheduledJobs, isInitialized, timers, now, ticks,
          pendingSchedule, pendingCancel, loads, paused, invoked, replies

vars == <<posts, scheduledJobs, isInitialized, timers, now, ticks,
          pendingSchedule, pendingCancel, loads, paused, invoked, replies>>

(* ------------------------------ helpers -------------------------------- *)
\* the target lists a request may carry: none, an unknown platform, and the
\* first 1..MaxTargets platforms of facebook, twitter, facebook, ...
TargetOrder(k) == IF k % 2 = 1 THEN "facebook" ELSE "twitter"
TargetLists ==
  {<<>>, <<UnknownPlatform>>} \cup {[k \in 1..n |-> TargetOrder(k)] : n \in 1..MaxTargets}

\* the users that send requests: the one who creates the posts, and another
Owner == "owner"
Users == {Owner, "other"}

\* the engagement of a postResults entry the schema fills in by default
NoEngagement == [likes |-> 0, comments |-> 0, shares |-> 0, views |-> 0]

\* the analytics of a post the schema fills in by default
NoAnalytics == [totalReach |-> 0, totalEngagement |-> 0]

\* media is the list of the types of the post's media items
NoPost == [status |-> "none", platforms |-> <<>>, media |-> <<>>,
           scheduledDate |-> NoDate, publishedDate |-> NoDate,
           postResults |-> <<>>, analytics |-> NoAnalytics,
           createdBy |-> "nobody"]

\* no answer yet
NoReply == [done |-> FALSE]

IdleTick == [pc |-> "idle", due |-> <<>>, postResults |-> <<>>,
             outcomes |-> <<>>, firedPaused |-> FALSE]

Exists(i) == posts[i].status # "none"

\* mongo assigns a fresh id to every created document
FreeIds == {i \in Ids : ~Exists(i)}
NewId == CHOOSE i \in FreeIds : \A j \in FreeIds : i <= j

\* a find returns its documents in id order
RECURSIVE SetToSeq(_)
SetToSeq(S) ==
  IF S = {} THEN <<>>
  ELSE LET m == CHOOSE x \in S : \A y \in S : x <= y
       IN <<m>> \o SetToSeq(S \ {m})

(* ------------------------------- Init ---------------------------------- *)
Init ==
  /\ posts = [i \in Ids |-> NoPost]
  /\ scheduledJobs = {}
  /\ isInitialized = FALSE
  /\ timers = 0
  /\ now = 0
  /\ ticks = [t \in TickIds |-> IdleTick]
  /\ pendingSchedule = {}
  /\ pendingCancel = {}
  /\ loads = {}
  /\ paused = FALSE
  /\ invoked = [i \in Ids |-> {}]
  /\ replies = [getStatus |-> NoReply, getSchedulerStats |-> NoReply,
                statsCall |-> NoReply]

(* ------------------------------ the clock ------------------------------ *)
Advance ==
  /\ now < MaxTime
  /\ now' = now + 1
  /\ UNCHANGED <<replies, posts, scheduledJobs, isInitialized, timers, ticks,
                 pendingSchedule, pendingCancel, loads, paused, invoked>>

(* ----------------------- SchedulerService: startup ---------------------- *)
\* loadScheduledPosts, the store query: status scheduled and not yet due
LoadQuery ==
  {i \in Ids : posts[i].status = "scheduled" /\ posts[i].scheduledDate >= now}

\* initialize up to the awaited query of loadScheduledPosts.  A call made
\* when isInitialized is already set returns at once and changes nothing.
InitializeBegin ==
  /\ ~isInitialized
  /\ Cardinality(loads) < MaxLoads
  /\ loads' = loads \cup {[snap |-> LoadQuery, init |-> TRUE]}
  /\ UNCHANGED <<replies, posts, scheduledJobs, isInitialized, timers, now, ticks,
                 pendingSchedule, pendingCancel, paused, invoked>>

\* the rest of loadScheduledPosts (clear the map, set every loaded post) and,
\* for a load made by initialize, startScheduler and the isInitialized flag
LoadDone(l) ==
  /\ l \in loads
  /\ loads' = loads \ {l}
  /\ scheduledJobs' = l.snap
  /\ timers' = IF l.init THEN timers + 1 ELSE timers
  /\ isInitialized' = (isInitialized \/ l.init)
  /\ UNCHANGED <<replies, posts, now, ticks, pendingSchedule, pendingCancel, paused, invoked>>

(* --------------------- SchedulerService: the cron tick ------------------ *)
\* the query of processScheduledPosts
DueQuery ==
  {i \in Ids : posts[i].status = "scheduled" /\ posts[i].scheduledDate <= now}

\* the documents the query returns: each is a copy made at query time
DueDocs == [k \in 1..Cardinality(DueQuery) |->
              [id |-> SetToSeq(DueQuery)[k],
               platforms |-> posts[SetToSeq(DueQuery)[k]].platforms,
               media |-> posts[SetToSeq(DueQuery)[k]].media]]

LowestIdle(t) ==
  /\ ticks[t].pc = "idle"
  /\ \A u \in TickIds : u < t => ticks[u].pc # "idle"

\* the cron callback: processScheduledPosts up to the awaited find.  With no
\* due post the callback returns and nothing changes.
ProcessScheduledPosts(t) ==
  /\ timers >= 1
  /\ LowestIdle(t)
  /\ DueQuery # {}
  /\ ticks' = [ticks EXCEPT ![t] = [pc |-> "claim", due |-> DueDocs,
                                    postResults |-> <<>>, outcomes |-> <<>>,
                                    firedPaused |-> paused]]
  /\ UNCHANGED <<replies, posts, scheduledJobs, isInitialized, timers, now,
                 pendingSchedule, pendingCancel, loads, paused, invoked>>

Cur(t) == Head(ticks[t].due)

\* findByIdAndUpdate(id, update): updates the document when it exists and is
\* a no-op returning null when it does not
FindByIdAndUpdate(i, update) ==
  IF Exists(i)
  THEN [posts EXCEPT ![i] = [f \in DOMAIN posts[i] |->
          IF f \in DOMAIN update THEN update[f] ELSE posts[i][f]]]
  ELSE posts

\* processScheduledPost without its first write
ClaimUpdateMissing == <<>>

\* the update processScheduledPost writes before the platform loop
ClaimUpdate == [status |-> "publishing"]

\* processScheduledPost, first write: status publishing
Claim(t) ==
  /\ ticks[t].pc = "claim"
  /\ LET i == Cur(t).id IN
     /\ posts' = FindByIdAndUpdate(i, ClaimUpdate)
     /\ ticks' = [ticks EXCEPT ![t].pc =
                    IF Len(Cur(t).platforms) = 0 THEN "final" ELSE "publish",
                               ![t].postResults = <<>>,
                               ![t].outcomes = <<>>]
  /\ UNCHANGED <<replies, scheduledJobs, isInitialized, timers, now,
                 pendingSchedule, pendingCancel, loads, paused, invoked>>

\* the first write throws: the catch of processScheduledPosts takes over
ClaimThrow(t) ==
  /\ ticks[t].pc = "claim"
  /\ ticks' = [ticks EXCEPT ![t].pc = "markFailed",
                            ![t].postResults = <<>>, ![t].outcomes = <<>>]
  /\ UNCHANGED <<replies, posts, scheduledJobs, isInitialized, timers, now,
                 pendingSchedule, pendingCancel, loads, paused, invoked>>

(* ----------------- SocialMediaService.postToPlatform -------------------- *)
\* whether the platform's service function throws for want of media before
\* its request that creates the post: instagram and tiktok ask for one media
\* item, youtube for a first item that is a video
MissingMedia(platform, media) ==
  \/ platform \in {"instagram", "tiktok"} /\ Len(media) = 0
  \/ platform = "youtube" /\ (Len(media) = 0 \/ media[1] # "video")

\* the platform's service function: the network calls it makes, in order,
\* and whether it returns (TRUE) or throws.  instagram logs in before it
\* looks at the media.  remote is whether the platform accepts the calls.
PlatformService(platform, media, remote) ==
  LET login == IF platform = "instagram" THEN <<"login">> ELSE <<>> IN
  IF MissingMedia(platform, media)
  THEN [returned |-> FALSE, calls |-> login]
  ELSE [returned |-> remote, calls |-> login \o <<"create">>]

\* ok: whether the platform accepts the service function's calls (TRUE) or
\* rejects one or times out (FALSE).  The wrapper catches every error and
\* returns an object with success false: it never throws.
PostToPlatform(platform, media, ok) ==
  IF platform \notin Platforms
  THEN [success |-> FALSE, platform |-> platform, threw |-> FALSE]
  ELSE [success |-> PlatformService(platform, media, ok).returned,
        platform |-> platform, threw |-> FALSE]

\* the postResults entry processScheduledPost pushes for one platform: the
\* success entry after the awaited call returns, the failed one in its catch
ResultEntry(platform, result) ==
  IF result.threw
  THEN [platform |-> platform, status |-> "failed", engagement |-> NoEngagement]
  ELSE [platform |-> platform, status |-> "success", engagement |-> NoEngagement]

\* the platform loop broken off at the first platform that fails
LoopNextAbort(k, n, result) ==
  IF k = n \/ ~result.success THEN "final" ELSE "publish"

\* the platform loop left after the first platform's result
LoopNextFirst(k, n, result) == "final"

\* where processScheduledPost goes after the k-th of n platforms returned
\* result: on to the next platform, and to the last write after the n-th
LoopNext(k, n, result) == IF k = n THEN "final" ELSE "publish"

\* one iteration of the platform loop of processScheduledPost
Publish(t, ok) ==
  /\ ticks[t].pc = "publish"
  /\ LET i == Cur(t).id
         k == Len(ticks[t].postResults) + 1
         platform == Cur(t).platforms[k]
         result == PostToPlatform(platform, Cur(t).media, ok)
     IN
     /\ ticks' = [ticks EXCEPT
           ![t].postResults = Append(@, ResultEntry(platform, result)),
           ![t].outcomes = Append(@, result.success),
           ![t].pc = LoopNext(k, Len(Cur(t).platforms), result)]
     /\ invoked' = [invoked EXCEPT ![i] = @ \cup {platform}]
  /\ UNCHANGED <<replies, posts, scheduledJobs, isInitialized, timers, now,
                 pendingSchedule, pendingCancel, loads, paused>>

\* the loop of processScheduledPosts moves to the next due post
NextPost(t) ==
  IF Len(ticks[t].due) = 1
  THEN [ticks EXCEPT ![t] = IdleTick]
  ELSE [ticks EXCEPT ![t].due = Tail(@), ![t].pc = "claim",
                     ![t].postResults = <<>>, ![t].outcomes = <<>>]

\* the last write of processScheduledPost without the status
FinalUpdateNoStatus(postResults) ==
  [publishedDate |-> now, postResults |-> postResults]

\* the update processScheduledPost writes when the platform loop is over
FinalUpdate(postResults) ==
  [status |-> "published", publishedDate |-> now, postResults |-> postResults]

\* processScheduledPost, last write and the removal from scheduledJobs.  The
\* removal follows the awaited write; it touches this post's id only and
\* commutes with every other step, so the two are one step here.
Final(t) ==
  /\ ticks[t].pc = "final"
  /\ LET i == Cur(t).id IN
     /\ posts' = FindByIdAndUpdate(i, FinalUpdate(ticks[t].postResults))
     /\ scheduledJobs' = scheduledJobs \ {i}
  /\ ticks' = NextPost(t)
  /\ UNCHANGED <<replies, isInitialized, timers, now, pendingSchedule, pendingCancel,
                 loads, paused, invoked>>

\* the last write throws: the catch of processScheduledPosts takes over
FinalThrow(t) ==
  /\ ticks[t].pc = "final"
  /\ ticks' = [ticks EXCEPT ![t].pc = "markFailed"]
  /\ UNCHANGED <<replies, posts, scheduledJobs, isInitialized, timers, now,
                 pendingSchedule, pendingCancel, loads, paused, invoked>>

\* the update of the catch branch of processScheduledPosts
FailedUpdate(platforms) ==
  [status |-> "failed",
   postResults |-> <<[platform |-> IF Len(platforms) > 0 THEN platforms[1]
                                   ELSE "undefined",
                      status |-> "failed", engagement |-> NoEngagement]>>]

\* the catch branch of processScheduledPosts: mark the post failed
MarkFailed(t) ==
  /\ ticks[t].pc = "markFailed"
  /\ LET i == Cur(t).id IN
     /\ posts' = FindByIdAndUpdate(i, FailedUpdate(Cur(t).platforms))
  /\ ticks' = NextPost(t)
  /\ UNCHANGED <<replies, scheduledJobs, isInitialized, timers, now,
                 pendingSchedule, pendingCancel, loads, paused, invoked>>

\* the write of the catch branch throws too: the outer catch ends the tick
MarkFailedThrow(t) ==
  /\ ticks[t].pc = "markFailed"
  /\ ticks' = [ticks EXCEPT ![t] = IdleTick]
  /\ UNCHANGED <<replies, posts, scheduledJobs, isInitialized, timers, now,
                 pendingSchedule, pendingCancel, loads, paused, invoked>>

(* ------------------ routes/scheduler.js and its controller -------------- *)
\* scheduledJobValidation: at least one platform, every platform a known
\* one, and a scheduledDate in the future
ScheduledJobValidation(platforms, date) ==
  /\ Len(platforms) >= 1
  /\ \A k \in 1..Len(platforms) : platforms[k] \in Platforms
  /\ date > now

\* schedulePost with the spread after the status: a status in the body wins
SchedulePostDocBodyLast(platforms, date, bodyStatus) ==
  [NoPost EXCEPT !.status = IF bodyStatus = "none" THEN "scheduled" ELSE bodyStatus,
                 !.platforms = platforms, !.scheduledDate = date,
                 !.createdBy = Owner]

\* the document schedulePost creates: the request's fields, then the status
\* (bodyStatus is a status field in the request body, "none" when absent)
SchedulePostDoc(platforms, date, bodyStatus) ==
  [NoPost EXCEPT !.status = "scheduled", !.platforms = platforms,
                 !.scheduledDate = date, !.createdBy = Owner]

\* createScheduledJob up to the awaited create of schedulePost.  A request
\* that fails validation is answered 400, one whose create throws 500; both
\* change nothing.
SchedulePostCreate(platforms, date, bodyStatus) ==
  /\ ScheduledJobValidation(platforms, date)
  /\ FreeIds # {}
  /\ posts' = [posts EXCEPT ![NewId] = SchedulePostDoc(platforms, date, bodyStatus)]
  /\ pendingSchedule' = pendingSchedule \cup {NewId}
  /\ UNCHANGED <<replies, scheduledJobs, isInitialized, timers, now, ticks,
                 pendingCancel, loads, paused, invoked>>

\* createScheduledJob for a request whose body carries media
SchedulePostCreateMedia(platforms, date, media) ==
  /\ ScheduledJobValidation(platforms, date)
  /\ FreeIds # {}
  /\ posts' = [posts EXCEPT ![NewId] =
                 [SchedulePostDoc(platforms, date, "none") EXCEPT !.media = media]]
  /\ pendingSchedule' = pendingSchedule \cup {NewId}
  /\ UNCHANGED <<replies, scheduledJobs, isInitialized, timers, now, ticks,
                 pendingCancel, loads, paused, invoked>>

\* the cache after schedulePost has set the new post
CacheAfterSchedule(i) == scheduledJobs \cup {i}

\* the rest of schedulePost: the post enters scheduledJobs, the call returns
SchedulePostReturn(i) ==
  /\ i \in pendingSchedule
  /\ pendingSchedule' = pendingSchedule \ {i}
  /\ scheduledJobs' = CacheAfterSchedule(i)
  /\ UNCHANGED <<replies, posts, isInitialized, timers, now, ticks,
                 pendingCancel, loads, paused, invoked>>

\* the update cancelScheduledPost writes
CancelUpdate == [status |-> "cancelled"]

\* cancelScheduledJob up to the awaited findByIdAndUpdate of
\* cancelScheduledPost; found is whether a document came back
CancelFind(i) ==
  /\ Cardinality(pendingCancel) < MaxCancels
  /\ posts' = FindByIdAndUpdate(i, CancelUpdate)
  /\ pendingCancel' = pendingCancel \cup {[id |-> i, found |-> Exists(i)]}
  /\ UNCHANGED <<replies, scheduledJobs, isInitialized, timers, now, ticks,
                 pendingSchedule, loads, paused, invoked>>

\* cancelScheduledPost without its scheduledJobs.delete
CacheAfterCancelKept(c) == scheduledJobs

\* the cache after cancelScheduledPost has its answer from the store
CacheAfterCancel(c) == IF c.found THEN scheduledJobs \ {c.id} ELSE scheduledJobs

\* the HTTP status cancelScheduledJob answers with
CancelResponse(c) == IF c.found THEN 200 ELSE 404

\* the rest of cancelScheduledPost and the controller's answer
CancelReturn(c) ==
  /\ c \in pendingCancel
  /\ pendingCancel' = pendingCancel \ {c}
  /\ scheduledJobs' = CacheAfterCancel(c)
  /\ UNCHANGED <<replies, posts, isInitialized, timers, now, ticks,
                 pendingSchedule, loads, paused, invoked>>

\* pauseScheduler writes a log line; paused remembers that it was called
PauseScheduler ==
  /\ ~paused
  /\ paused' = TRUE
  /\ UNCHANGED <<replies, posts, scheduledJobs, isInitialized, timers, now, ticks,
                 pendingSchedule, pendingCancel, loads, invoked>>

\* resumeScheduler writes a log line
ResumeScheduler ==
  /\ paused
  /\ paused' = FALSE
  /\ UNCHANGED <<replies, posts, scheduledJobs, isInitialized, timers, now, ticks,
                 pendingSchedule, pendingCancel, loads, invoked>>

(* ----------------- SchedulerService: the read operations ---------------- *)
\* what the store, the cache and the flag hold; an answer remembers it as
\* seen, for the properties to tell whether anything was changed since
Mutable == <<posts, scheduledJobs, isInitialized>>

\* the aggregate of getSchedulerStats counting only the posts already due
StatsCountsDue ==
  [st \in Statuses |->
     Cardinality({i \in Ids : posts[i].status = st /\ posts[i].scheduledDate <= now})]

\* the aggregate of getSchedulerStats: the number of posts by status.  The
\* result starts with 0 for scheduled, published, failed and cancelled and
\* gets a key for any other status the store holds; no key reads as 0 here.
StatsCounts ==
  [st \in Statuses |-> Cardinality({i \in Ids : posts[i].status = st})]

\* total sums the count of every status the store holds
StatsTotal == Cardinality({i \in Ids : Exists(i)})

\* the seven days getSchedulerStats looks ahead, a clock step being a day
WeekAhead == 7

\* the countDocuments of getSchedulerStats
StatsUpcoming ==
  Cardinality({i \in Ids : /\ posts[i].status = "scheduled"
                           /\ posts[i].scheduledDate <= now + WeekAhead})

\* whether answer was given for the store, cache and flag as they are now
Fresh(answer) == answer.done /\ answer.seen = Mutable

\* what getStatus returns; again tells that the answer before it was given
\* with nothing changed in between
GetStatusResult ==
  [done |-> TRUE, isInitialized |-> isInitialized,
   scheduledJobsCount |-> Cardinality(scheduledJobs), timestamp |-> now,
   seen |-> Mutable, again |-> Fresh(replies.getStatus)]

\* getStatus: synchronous, builds its answer from the two fields and the clock
GetStatus ==
  /\ replies' = [replies EXCEPT !.getStatus = GetStatusResult]
  /\ UNCHANGED <<posts, scheduledJobs, isInitialized, timers, now, ticks,
                 pendingSchedule, pendingCancel, loads, paused, invoked>>

\* getSchedulerStats up to its awaited aggregate: the counts by status
GetSchedulerStatsAggregate ==
  /\ replies' = [replies EXCEPT !.statsCall =
                   [done |-> TRUE, counts |-> StatsCounts, total |-> StatsTotal,
                    seen |-> Mutable]]
  /\ UNCHANGED <<posts, scheduledJobs, isInitialized, timers, now, ticks,
                 pendingSchedule, pendingCancel, loads, paused, invoked>>

\* what getSchedulerStats returns, call being what its aggregate gave; seen is
\* what the call saw at its first read
GetSchedulerStatsResult(call) ==
  [done |-> TRUE, counts |-> call.counts, total |-> call.total,
   upcoming |-> StatsUpcoming, seen |-> call.seen,
   again |-> Fresh(replies.getSchedulerStats) /\ Fresh(call)]

\* the rest of getSchedulerStats: the awaited countDocuments, and the answer
GetSchedulerStatsCount ==
  /\ replies.statsCall.done
  /\ replies' = [replies EXCEPT
                   !.getSchedulerStats = GetSchedulerStatsResult(replies.statsCall),
                   !.statsCall = NoReply]
  /\ UNCHANGED <<posts, scheduledJobs, isInitialized, timers, now, ticks,
                 pendingSchedule, pendingCancel, loads, paused, invoked>>

(* ----------------- controllers/socialMediaController.js ----------------- *)
\* postToPlatform with a scheduledDate in the body: postValidation asks only
\* for a well-formed date; the post is created scheduled, for one platform,
\* and scheduledJobs is not touched
PostScheduled(platform, date) ==
  /\ platform \in Platforms
  /\ FreeIds # {}
  /\ posts' = [posts EXCEPT ![NewId] =
                 [NoPost EXCEPT !.status = "scheduled",
                                !.platforms = <<platform>>,
                                !.scheduledDate = date,
                                !.createdBy = Owner]]
  /\ UNCHANGED <<replies, scheduledJobs, isInitialized, timers, now, ticks,
                 pendingSchedule, pendingCancel, loads, paused, invoked>>

\* postToPlatform without a scheduledDate: publish at once, then store the
\* post as published or failed with its single result
PostNow(platform, ok) ==
  /\ platform \in Platforms
  /\ FreeIds # {}
  /\ LET result == PostToPlatform(platform, <<>>, ok) IN
     /\ posts' = [posts EXCEPT ![NewId] =
          IF result.success
          THEN [NoPost EXCEPT !.status = "published",
                              !.platforms = <<platform>>,
                              !.createdBy = Owner,
                              !.publishedDate = now,
                              !.postResults = <<[platform |-> platform,
                                                 status |-> "success",
                                                 engagement |-> NoEngagement]>>]
          ELSE [NoPost EXCEPT !.status = "failed",
                              !.platforms = <<platform>>,
                              !.createdBy = Owner,
                              !.postResults = <<[platform |-> platform,
                                                 status |-> "failed",
                                                 engagement |-> NoEngagement]>>]]
     /\ invoked' = [invoked EXCEPT ![NewId] = @ \cup {platform}]
  /\ UNCHANGED <<replies, scheduledJobs, isInitialized, timers, now, ticks,
                 pendingSchedule, pendingCancel, loads, paused>>

\* the schema validators findOneAndUpdate runs on an update (runValidators):
\* every platform one of the enum, the status one of the enum; an empty
\* platforms array passes
UpdateValidators(updates) ==
  /\ "platforms" \in DOMAIN updates =>
       \A k \in 1..Len(updates.platforms) : updates.platforms[k] \in Platforms
  /\ "status" \in DOMAIN updates =>
       updates.status \in Statuses \ {"publishing"}

\* updateScheduledPost: the request body is the update, applied to the
\* caller's post whatever its status; postValidation names neither platforms
\* nor status and its result is not read.  An id the store does not hold is
\* answered 404, an update the validators reject 500; both change nothing.
UpdateScheduledPost(i, updates) ==
  /\ Exists(i)
  /\ UpdateValidators(updates)
  /\ posts' = FindByIdAndUpdate(i, updates)
  /\ UNCHANGED <<replies, scheduledJobs, isInitialized, timers, now, ticks,
                 pendingSchedule, pendingCancel, loads, paused, invoked>>

\* updateScheduledPost as called by user: the filter names the caller, so
\* another user's post is not found and nothing changes
UpdateScheduledPostAs(user, i, updates) ==
  /\ posts[i].createdBy = user
  /\ UpdateScheduledPost(i, updates)

\* the update a request body of PUT /jobs/:id makes: the body as it is; a
\* status of "none" stands for a body without the field
JobUpdates(body) ==
  IF body.status = "none"
  THEN [platforms |-> body.platforms, scheduledDate |-> body.scheduledDate]
  ELSE [platforms |-> body.platforms, scheduledDate |-> body.scheduledDate,
        status |-> body.status]

\* updateScheduledJob: scheduledJobValidation on the body, the update of the
\* caller's post if it is stored scheduled, then the call of
\* loadScheduledPosts up to its awaited query.  A body that fails validation
\* is answered 400, a post not found 404, an update the schema validators
\* reject 500; all three change nothing.
UpdateScheduledJob(user, i, body) ==
  /\ ScheduledJobValidation(body.platforms, body.scheduledDate)
  /\ posts[i].createdBy = user
  /\ posts[i].status = "scheduled"
  /\ UpdateValidators(JobUpdates(body))
  /\ Cardinality(loads) < MaxLoads
  /\ posts' = FindByIdAndUpdate(i, JobUpdates(body))
  /\ loads' = loads \cup
       {[snap |-> {j \in Ids : /\ posts'[j].status = "scheduled"
                               /\ posts'[j].scheduledDate >= now},
         init |-> FALSE]}
  /\ UNCHANGED <<replies, scheduledJobs, isInitialized, timers, now, ticks,
                 pendingSchedule, pendingCancel, paused, invoked>>

\* cancelScheduledJob as called by user, up to the awaited findByIdAndUpdate:
\* neither the controller nor cancelScheduledPost looks at the caller
CancelFindAs(user, i) ==
  /\ Cardinality(pendingCancel) < MaxCancels
  /\ posts' = FindByIdAndUpdate(i, CancelUpdate)
  /\ pendingCancel' = pendingCancel \cup
       {[id |-> i, found |-> Exists(i), by |-> user]}
  /\ UNCHANGED <<replies, scheduledJobs, isInitialized, timers, now, ticks,
                 pendingSchedule, loads, paused, invoked>>

(* ----------------------- models/SocialMediaPost.js ---------------------- *)
\* the reduce of pre('save') over the views of the postResults
RECURSIVE TotalReach(_)
TotalReach(results) ==
  IF results = <<>> THEN 0
  ELSE Head(results).engagement.views + TotalReach(Tail(results))

\* the virtual totalEngagement: likes, comments and shares over the postResults
RECURSIVE TotalEngagement(_)
TotalEngagement(results) ==
  IF results = <<>> THEN 0
  ELSE Head(results).engagement.likes + Head(results).engagement.comments
       + Head(results).engagement.shares + TotalEngagement(Tail(results))

\* pre('save'): the analytics are reckoned from the postResults
PreSave(doc) ==
  [doc EXCEPT !.analytics = [totalReach |-> TotalReach(doc.postResults),
                             totalEngagement |-> TotalEngagement(doc.postResults)]]

\* postResults.find(r => r.platform === platform): the index of the first
\* entry of the platform, 0 when there is none
ExistingResult(results, platform) ==
  IF \E k \in 1..Len(results) : results[k].platform = platform
  THEN CHOOSE k \in 1..Len(results) :
         /\ results[k].platform = platform
         /\ \A j \in 1..(k - 1) : results[j].platform # platform
  ELSE 0

\* the postResults after updatePostResult: the platform's entry takes the
\* fields of resultData, or a new entry is pushed
PostResultsUpdated(results, platform, resultData) ==
  LET k == ExistingResult(results, platform) IN
  IF k > 0
  THEN [results EXCEPT ![k] = [platform |-> results[k].platform,
                               status |-> resultData.status,
                               engagement |-> resultData.engagement]]
  ELSE Append(results, [platform |-> platform, status |-> resultData.status,
                        engagement |-> resultData.engagement])

\* updatePostResult on the stored document, and its save with the hook.  A
\* platform outside the enum fails the save's validation: nothing is stored.
UpdatePostResult(i, platform, resultData) ==
  /\ Exists(i)
  /\ platform \in Platforms
  /\ posts' = [posts EXCEPT ![i] =
       PreSave([@ EXCEPT !.postResults =
                  PostResultsUpdated(@, platform, resultData)])]
  /\ UNCHANGED <<replies, scheduledJobs, isInitialized, timers, now, ticks,
                 pendingSchedule, pendingCancel, loads, paused, invoked>>

\* initializeScheduler, the handler of POST /initialize: it calls initialize
\* whatever call is under way.  initialize reads isInitialized before its
\* awaited loadScheduledPosts and sets it after; this is the call up to the
\* awaited query.
InitializeEndpoint ==
  /\ ~isInitialized
  /\ LET calls == {l \in loads : "call" \in DOMAIN l} IN
     /\ Cardinality(calls) < MaxInits
     /\ loads' = loads \cup
          {[snap |-> LoadQuery, init |-> TRUE,
            call |-> CHOOSE n \in 1..MaxInits : \A l \in calls : l.call # n]}
  /\ UNCHANGED <<replies, posts, scheduledJobs, isInitialized, timers, now, ticks,
                 pendingSchedule, pendingCancel, paused, invoked>>

\* the query of loadScheduledPosts throws: the method rethrows, initialize
\* rethrows before startScheduler and before it sets isInitialized
LoadThrow(l) ==
  /\ l \in loads
  /\ loads' = loads \ {l}
  /\ UNCHANGED <<replies, posts, scheduledJobs, isInitialized, timers, now, ticks,
                 pendingSchedule, pendingCancel, paused, invoked>>

(* ------------------------------ the system ------------------------------ *)
\* the :platform parameter of the requests to postToPlatform
PostPlatforms == {"facebook", UnknownPlatform}
BodyStatuses == {"none", "draft", "published"}

\* the clock, startup, and the schedule and cancel endpoints
Clients ==
  \/ Advance
  \/ InitializeBegin
  \/ \E snap \in SUBSET Ids, init \in BOOLEAN : LoadDone([snap |-> snap, init |-> init])
  \/ \E pl \in TargetLists, d \in Times, b \in BodyStatuses : SchedulePostCreate(pl, d, b)
  \/ \E i \in Ids : SchedulePostReturn(i)

Cancels ==
  \/ \E i \in Ids : CancelFind(i)
  \/ \E i \in Ids, found \in BOOLEAN : CancelReturn([id |-> i, found |-> found])

\* the cron tick with a store that answers every write
Ticks ==
  \/ \E t \in TickIds : ProcessScheduledPosts(t)
  \/ \E t \in TickIds : Claim(t)
  \/ \E t \in TickIds, ok \in BOOLEAN : Publish(t, ok)
  \/ \E t \in TickIds : Final(t)

\* the store fails a write of the job processor
Faults ==
  \/ \E t \in TickIds : ClaimThrow(t)
  \/ \E t \in TickIds : FinalThrow(t)
  \/ \E t \in TickIds : MarkFailed(t)
  \/ \E t \in TickIds : MarkFailedThrow(t)

\* the scheduler and its endpoints, the store available
Next ==
  \/ Clients
  \/ Cancels
  \/ Ticks

Spec == Init /\ [][Next]_vars

\* the scheduler with a store that may fail the job processor's writes
NextFaults ==
  \/ Clients
  \/ Ticks
  \/ Faults

SpecFaults == Init /\ [][NextFaults]_vars

\* the loadScheduledPosts calls that initialize can have under way
InitLoads ==
  {[snap |-> snap, init |-> TRUE] : snap \in SUBSET Ids}
    \cup {[snap |-> snap, init |-> TRUE, call |-> n] :
             snap \in SUBSET Ids, n \in 1..MaxInits}

\* server start and the /initialize endpoint, with a store whose query may fail
NextInit ==
  \/ Clients
  \/ InitializeEndpoint
  \/ \E l \in InitLoads : LoadDone(l)
  \/ \E l \in InitLoads : LoadThrow(l)

SpecInit == Init /\ [][NextInit]_vars

\* the scheduler with no cancel and no edit, the store available, under the
\* scheduling of the runtime: the cron timer fires every minute, and every
\* awaited store write and adapter call of a tick completes
NextLive ==
  \/ Clients
  \/ Ticks

SpecLive ==
  /\ Init /\ [][NextLive]_vars
  /\ WF_vars(\E t \in TickIds : ProcessScheduledPosts(t))
  /\ \A t \in TickIds :
       /\ WF_vars(Claim(t))
       /\ WF_vars(\E ok \in BOOLEAN : Publish(t, ok))
       /\ WF_vars(Final(t))

\* the scheduler with the pause and resume endpoints being called
NextPause ==
  \/ Clients
  \/ Ticks
  \/ PauseScheduler
  \/ ResumeScheduler

SpecPause == Init /\ [][NextPause]_vars

\* the scheduler beside the social media controller, which also creates posts
NextSocial ==
  \/ Clients
  \/ Ticks
  \/ \E p \in PostPlatforms, d \in Times : PostScheduled(p, d)
  \/ \E p \in PostPlatforms, ok \in BOOLEAN : PostNow(p, ok)

SpecSocial == Init /\ [][NextSocial]_vars

\* the requests for the platforms that ask for media: one target, and no
\* media, an image or a video
MediaTargetLists == {<<"instagram">>, <<"tiktok">>, <<"youtube">>}
MediaLists == {<<>>, <<"image">>, <<"video">>}

\* the scheduler with posts for the platforms that ask for media
NextMedia ==
  \/ Advance
  \/ InitializeBegin
  \/ \E snap \in SUBSET Ids, init \in BOOLEAN : LoadDone([snap |-> snap, init |-> init])
  \/ \E pl \in MediaTargetLists, d \in Times, md \in MediaLists :
       SchedulePostCreateMedia(pl, d, md)
  \/ \E i \in Ids : SchedulePostReturn(i)
  \/ Ticks

SpecMedia == Init /\ [][NextMedia]_vars

\* the bodies of the edit requests: no target left, another target, and a
\* platform name the schema does not know
EditBodies ==
  {[platforms |-> <<>>], [platforms |-> <<"twitter">>],
   [platforms |-> <<UnknownPlatform>>]}

\* the scheduler beside the edit endpoint of the social media controller
NextEdit ==
  \/ Clients
  \/ Ticks
  \/ \E i \in Ids, updates \in EditBodies : UpdateScheduledPost(i, updates)

SpecEdit == Init /\ [][NextEdit]_vars

\* target lists the validation accepts that name a platform twice or once
RepeatTargetLists == {<<"facebook", "facebook">>, <<"facebook">>}
\* what a caller of updatePostResult reports for a platform
ResultDatas ==
  {[status |-> "success",
    engagement |-> [likes |-> 1, comments |-> 1, shares |-> 0, views |-> 2]]}

\* the scheduler with results being reported through updatePostResult
NextResults ==
  \/ Advance
  \/ InitializeBegin
  \/ \E snap \in SUBSET Ids, init \in BOOLEAN : LoadDone([snap |-> snap, init |-> init])
  \/ \E pl \in RepeatTargetLists, d \in Times : SchedulePostCreate(pl, d, "none")
  \/ \E i \in Ids : SchedulePostReturn(i)
  \/ Ticks
  \/ \E i \in Ids, p \in {"facebook", "twitter"}, rd \in ResultDatas :
       UpdatePostResult(i, p, rd)

SpecResults == Init /\ [][NextResults]_vars

\* the bodies of PUT /jobs/:id: other targets and a time, without and with a
\* status field
JobBodies ==
  {[platforms |-> <<"twitter">>, scheduledDate |-> d, status |-> st] :
     d \in Times, st \in {"none", "published"}}

\* the endpoints that take a post id, called by the owner and by another user
NextOwners ==
  \/ Clients
  \/ \E u \in Users, i \in Ids, body \in JobBodies : UpdateScheduledJob(u, i, body)
  \/ \E u \in Users, i \in Ids, updates \in EditBodies :
       UpdateScheduledPostAs(u, i, updates)
  \/ \E u \in Users, i \in Ids : CancelFindAs(u, i)
  \/ \E u \in Users, i \in Ids, found \in BOOLEAN :
       CancelReturn([id |-> i, found |-> found, by |-> u])

SpecOwners == Init /\ [][NextOwners]_vars

\* the scheduler with its read operations being called
NextReads ==
  \/ Clients
  \/ GetStatus
  \/ GetSchedulerStatsAggregate
  \/ GetSchedulerStatsCount

SpecReads == Init /\ [][NextReads]_vars

(* ============================== properties ============================== *)
HasSuccess(results) == \E k \in 1..Len(results) : results[k].status = "success"

AllFailed(outcomes) == \A k \in 1..Len(outcomes) : ~outcomes[k]

\* C1: when the job processor finishes a post (the last write of
\* processScheduledPost, or the write of the failure branch), the stored status
\* is published or failed, it is published exactly when some stored postResults
\* entry is a success, and it is failed when every platform's publish failed.
C1_TerminalStatus ==
  [][\A t \in TickIds :
       (Final(t) \/ MarkFailed(t)) /\ Exists(Cur(t).id) =>
         LET after == posts'[Cur(t).id] IN
         /\ after.status \in {"published", "failed"}
         /\ after.status = "published" <=> HasSuccess(after.postResults)
         /\ AllFailed(ticks[t].outcomes) => after.status = "failed"]_vars

\* C2: when processScheduledPost writes its results, the entry of every target
\* platform is a success exactly when that platform's publish succeeded and a
\* failure exactly when it failed or timed out.
C2_ResultsMatchOutcomes ==
  [][\A t \in TickIds :
       Final(t) /\ Exists(Cur(t).id) =>
         LET after == posts'[Cur(t).id].postResults IN
         \A k \in 1..Len(Cur(t).platforms) :
           /\ k <= Len(after)
           /\ after[k].platform = Cur(t).platforms[k]
           /\ after[k].status = "success" <=> ticks[t].outcomes[k]
           /\ after[k].status = "failed" <=> ~ticks[t].outcomes[k]]_vars


TooLate == {"publishing", "published", "failed", "cancelled"}

\* C3: a cancel of a post whose stored status is publishing, published, failed
\* or cancelled is answered with an error and leaves the stored record as it
\* was.
C3_LateCancelRejected ==
  [][\A c \in pendingCancel' \ pendingCancel :
       posts[c.id].status \in TooLate =>
         /\ posts'[c.id] = posts[c.id]
         /\ CancelResponse(c) >= 400]_vars

\* C4: a tick and a cancel never both claim a post: once the store holds
\* cancelled for a post, no tick moves it to publishing, published or failed,
\* and once the cancel has returned no adapter is invoked for it.
C4_CancelOrProcess ==
  [][/\ \A i \in Ids :
          posts[i].status = "cancelled" =>
            posts'[i].status \notin {"publishing", "published", "failed"}
     /\ \A t \in TickIds, ok \in BOOLEAN :
          Publish(t, ok) =>
            ~(/\ posts[Cur(t).id].status = "cancelled"
              /\ \A c \in pendingCancel : c.id # Cur(t).id)]_vars

\* C5: over a post's lifetime the adapter of each target platform is invoked
\* at most once, whatever the overlap of the cron ticks.
C5_PublishedOnce ==
  [][\A t \in TickIds, ok \in BOOLEAN :
       Publish(t, ok) =>
         Cur(t).platforms[Len(ticks[t].postResults) + 1] \notin invoked[Cur(t).id]]_vars

\* C6: a tick writes publishing only for a post whose stored status is
\* scheduled and whose scheduledDate is not later than now at that moment, and
\* nothing but a tick moves a post to publishing.
C6_DispatchOnlyDue ==
  [][/\ \A t \in TickIds :
          Claim(t) =>
            /\ posts[Cur(t).id].status = "scheduled"
            /\ posts[Cur(t).id].scheduledDate <= now
     /\ \A i \in Ids :
          posts[i].status # "publishing" /\ posts'[i].status = "publishing" =>
            \E t \in TickIds : Claim(t) /\ Cur(t).id = i]_vars

\* C7: schedulePost, called with a scheduledDate in the future, stores the new
\* post with status scheduled, and when the call returns scheduledJobs holds
\* the new post's id.
C7_ScheduledAndCached ==
  [][\A i \in Ids :
       /\ i \notin pendingSchedule /\ i \in pendingSchedule' =>
            /\ ~Exists(i)
            /\ posts'[i].status = "scheduled"
            /\ posts'[i].scheduledDate > now
       /\ i \in pendingSchedule /\ i \notin pendingSchedule' =>
            i \in scheduledJobs']_vars

\* a schedulePost call has returned, before any load or tick, for a post that
\* is still to come: the post is stored scheduled and its id is in the cache
C7_Witness ==
  /\ ~isInitialized /\ loads = {} /\ pendingCancel = {}
  /\ \E i \in Ids :
       /\ i \notin pendingSchedule
       /\ i \in scheduledJobs
       /\ posts[i].status = "scheduled"
       /\ posts[i].scheduledDate > now

\* C8: a cancel of a post whose stored status is scheduled stores cancelled
\* and, when it returns, the id is not in scheduledJobs; a cancel of an id the
\* store does not hold is answered 404 and changes neither store nor cache.
C8_CancelScheduled ==
  [][/\ \A c \in pendingCancel' \ pendingCancel :
          /\ posts[c.id].status = "scheduled" =>
               c.found /\ posts'[c.id].status = "cancelled"
          /\ ~Exists(c.id) =>
               /\ ~c.found
               /\ CancelResponse(c) = 404
               /\ UNCHANGED <<posts, scheduledJobs>>
     /\ \A c \in pendingCancel \ pendingCancel' :
          /\ c.found => CancelResponse(c) = 200 /\ c.id \notin scheduledJobs'
          /\ ~c.found => UNCHANGED <<posts, scheduledJobs>>]_vars

\* no timer was ever started, so post i went from scheduled to cancelled by a
\* cancel that has returned and taken it out of the cache its schedulePost had
\* put it in; and a cancel of an id the store does not hold has got its answer
C8_Witness ==
  /\ timers = 0 /\ loads = {} /\ ~isInitialized
  /\ \E i, j \in Ids :
       /\ posts[i].status = "cancelled"
       /\ i \notin pendingSchedule
       /\ i \notin scheduledJobs
       /\ ~Exists(j)
       /\ pendingCancel = {[id |-> j, found |-> FALSE]}

\* C9: every path that creates a post with status scheduled does so only
\* with a scheduledDate strictly in the future and at least one target: a
\* request without them creates no record.
C9_NoInvalidScheduled ==
  [][\A i \in Ids :
       ~Exists(i) /\ posts'[i].status = "scheduled" =>
         /\ posts'[i].scheduledDate > now
         /\ Len(posts'[i].platforms) >= 1]_vars

\* C10: a tick fired after pauseScheduler and before the next resumeScheduler
\* dispatches nothing: it never writes publishing for a post.
C10_PauseGatesTicks ==
  [][\A t \in TickIds : Claim(t) => ~ticks[t].firedPaused]_vars

InPublish(t) == ticks[t].pc \in {"publish", "final"}

C12_EveryPlatformAttempted ==
  [][\A t \in TickIds :
       /\ \A ok \in BOOLEAN :
            Publish(t, ok) =>
              LET k == Len(ticks[t].postResults) + 1 IN
              /\ Len(ticks'[t].postResults) = k
              /\ ticks'[t].pc =
                   IF k < Len(Cur(t).platforms) THEN "publish" ELSE "final"
       /\ Final(t) /\ Exists(Cur(t).id) =>
            LET after == posts'[Cur(t).id].postResults IN
            /\ Len(after) = Len(Cur(t).platforms)
            /\ \A k \in 1..Len(after) :
                 /\ after[k].platform = Cur(t).platforms[k]
                 /\ after[k].platform \in invoked[Cur(t).id]]_vars

\* the first of two targets failed, the second was attempted all the same,
\* and the tick is about to store both entries
C12_Witness ==
  \E t \in TickIds :
    /\ ticks[t].pc = "final"
    /\ Len(Cur(t).platforms) = 2
    /\ ticks[t].outcomes = <<FALSE, TRUE>>
    /\ Len(ticks[t].postResults) = 2

\* C13: within one job the store is not written while publish attempts are
\* outstanding: an iteration of the platform loop leaves the store alone, and
\* the write of the final status and postResults is made when the attempt for
\* every target platform has returned.
C13_FinalWriteIsJoin ==
  [][\A t \in TickIds :
       /\ \A ok \in BOOLEAN : Publish(t, ok) => UNCHANGED posts
       /\ Final(t) =>
            /\ Len(ticks[t].outcomes) = Len(Cur(t).platforms)
            /\ \A k \in 1..Len(Cur(t).platforms) :
                 ticks[t].outcomes[k] \in BOOLEAN]_vars

\* a job of two targets has had its final write: both results are stored
C13_Witness ==
  \E i \in Ids :
    /\ posts[i].status = "published"
    /\ Len(posts[i].platforms) = 2
    /\ Len(posts[i].postResults) = 2

\* the status changes the lifecycle allows
LifecycleTransitions ==
  {<<"draft", "scheduled">>, <<"scheduled", "publishing">>,
   <<"publishing", "published">>, <<"publishing", "failed">>,
   <<"scheduled", "cancelled">>}

\* C14: whatever the order of schedule, cancel and tick steps, the stored
\* status of a post changes only along draft -> scheduled, scheduled ->
\* publishing, publishing -> published or failed, and scheduled -> cancelled.
C14_LifecycleOnly ==
  [][\A i \in Ids :
       Exists(i) /\ posts'[i].status # posts[i].status =>
         <<posts[i].status, posts'[i].status>> \in LifecycleTransitions]_vars

\* C15: once the store holds failed for a post, the scheduler leaves it
\* alone: no tick reads it as due, no tick writes publishing for it or invokes
\* an adapter for it, and its status stays failed.
C15_FailedStaysFailed ==
  [][/\ \A i \in Ids :
          posts[i].status = "failed" => posts'[i].status = "failed"
     /\ \A t \in TickIds :
          /\ ProcessScheduledPosts(t) =>
               \A k \in 1..Len(ticks'[t].due) :
                 posts[ticks'[t].due[k].id].status # "failed"
          /\ Claim(t) \/ (\E ok \in BOOLEAN : Publish(t, ok)) =>
               posts[Cur(t).id].status # "failed"]_vars

\* C16: a failed store write of the job processor leaves the post as the
\* store last held it: the failure itself changes nothing, and the handling
\* that follows does not mark the post failed, so a post whose claim write
\* failed is still scheduled and due for the next tick, and one whose final
\* write failed is still publishing.
C16_WriteFailureKeepsState ==
  [][\A t \in TickIds :
       /\ ClaimThrow(t) \/ FinalThrow(t) => UNCHANGED posts
       /\ ticks[t].pc = "markFailed" /\ ticks'[t] # ticks[t] =>
            /\ posts'[Cur(t).id] = posts[Cur(t).id]
            /\ posts[Cur(t).id].status = "scheduled" => Cur(t).id \in DueQuery']_vars

\* C17: a tick's publish for instagram, tiktok or youtube on a post without
\* media fails and makes no request that creates the post; and a job whose
\* single target is such a platform is stored failed by the tick.
C17_MissingMediaFails ==
  [][\A t \in TickIds :
       LET post == Cur(t)
           platform == post.platforms[Len(ticks[t].postResults) + 1]
       IN
       /\ \A ok \in BOOLEAN :
            Publish(t, ok) /\ platform \in MediaPlatforms /\ Len(post.media) = 0 =>
              LET calls == PlatformService(platform, post.media, ok).calls IN
              /\ ~ticks'[t].outcomes[Len(ticks'[t].outcomes)]
              /\ \A k \in 1..Len(calls) : calls[k] # "create"
       /\ /\ Final(t)
          /\ Len(post.platforms) = 1
          /\ post.platforms[1] \in MediaPlatforms
          /\ Len(post.media) = 0
          /\ Exists(post.id)
          => posts'[post.id].status = "failed"]_vars

Reads == GetStatus \/ GetSchedulerStatsAggregate \/ GetSchedulerStatsCount

\* C18: getStatus and getSchedulerStats change neither the store nor the
\* cache, and a call that follows another with nothing changed in between
\* returns the identical result.
C18_ReadsIdentical ==
  [][/\ Reads => UNCHANGED <<posts, scheduledJobs>>
     /\ GetStatus /\ replies'.getStatus.again =>
          /\ replies'.getStatus.isInitialized = replies.getStatus.isInitialized
          /\ replies'.getStatus.scheduledJobsCount = replies.getStatus.scheduledJobsCount
          /\ replies'.getStatus.timestamp = replies.getStatus.timestamp
     /\ GetSchedulerStatsCount /\ replies'.getSchedulerStats.again =>
          /\ replies'.getSchedulerStats.counts = replies.getSchedulerStats.counts
          /\ replies'.getSchedulerStats.total = replies.getSchedulerStats.total
          /\ replies'.getSchedulerStats.upcoming = replies.getSchedulerStats.upcoming]_vars

\* C18, amended: getStatus and getSchedulerStats change nothing but the answer
\* they give, and a call that follows another with nothing changed in between
\* returns the same isInitialized and scheduledJobsCount, respectively the same
\* counts by status and total (the timestamp and the upcoming count are
\* reckoned from the time of the call).
C18_ReadsIdenticalButTime ==
  [][/\ Reads => UNCHANGED <<posts, scheduledJobs, isInitialized, timers, now,
                             ticks, pendingSchedule, pendingCancel, loads>>
     /\ GetStatus /\ replies'.getStatus.again =>
          /\ replies'.getStatus.isInitialized = replies.getStatus.isInitialized
          /\ replies'.getStatus.scheduledJobsCount = replies.getStatus.scheduledJobsCount
     /\ GetSchedulerStatsCount /\ replies'.getSchedulerStats.again =>
          /\ replies'.getSchedulerStats.counts = replies.getSchedulerStats.counts
          /\ replies'.getSchedulerStats.total = replies.getSchedulerStats.total]_vars

\* both operations have answered a second time with nothing changed since
\* their answer before, a post being scheduled and cached, at a later time
\* than the first getStatus
C18_Witness ==
  /\ replies.getStatus.done /\ replies.getStatus.again
  /\ replies.getStatus.scheduledJobsCount = 1
  /\ replies.getStatus.timestamp = 1
  /\ replies.getSchedulerStats.done /\ replies.getSchedulerStats.again
  /\ replies.getSchedulerStats.counts["scheduled"] = 1
  /\ replies.getSchedulerStats.upcoming = 1

\* C19: every post the store holds as scheduled or publishing has at least
\* one target platform.
C19_ScheduledHasTarget ==
  \A i \in Ids :
    posts[i].status \in {"scheduled", "publishing"} => Len(posts[i].platforms) >= 1

\* C20: every post the store holds as published has at least one postResults
\* entry.
C20_PublishedHasResults ==
  \A i \in Ids :
    posts[i].status = "published" => Len(posts[i].postResults) >= 1

OnePerPlatform(results) ==
  \A j, k \in 1..Len(results) : results[j].platform = results[k].platform => j = k

\* C21: whenever a tick's write or updatePostResult changes a post's
\* postResults, the new postResults has at most one entry per platform.
C21_OneResultPerPlatform ==
  [][\A i \in Ids :
       Exists(i) /\ posts'[i].postResults # posts[i].postResults =>
         OnePerPlatform(posts'[i].postResults)]_vars

\* C22: whenever an operation changes a post's postResults, the analytics it
\* leaves in the store are those reckoned from the new postResults: totalReach
\* the sum of the views, totalEngagement the sum of likes, comments and shares.
C22_AnalyticsFollowResults ==
  [][\A i \in Ids :
       Exists(i) /\ posts'[i].postResults # posts[i].postResults =>
         /\ posts'[i].analytics.totalReach = TotalReach(posts'[i].postResults)
         /\ posts'[i].analytics.totalEngagement =
              TotalEngagement(posts'[i].postResults)]_vars

\* C23: an edit changes a post only when the caller owns it and the store
\* holds it as scheduled, and it leaves the status field as it was.
C23_EditOwnScheduledOnly ==
  [][\A u \in Users, i \in Ids :
       (\/ \E body \in JobBodies : UpdateScheduledJob(u, i, body)
        \/ \E updates \in EditBodies : UpdateScheduledPostAs(u, i, updates)) =>
         /\ posts'[i] # posts[i] =>
              posts[i].createdBy = u /\ posts[i].status = "scheduled"
         /\ posts'[i].status = posts[i].status]_vars

\* C25: a cancel called by a user who does not own the post leaves the post's
\* status as it was and, when it returns, leaves the post in scheduledJobs.
C25_CancelByOwnerOnly ==
  [][/\ \A u \in Users, i \in Ids :
          CancelFindAs(u, i) /\ Exists(i) /\ posts[i].createdBy # u =>
            posts'[i].status = posts[i].status
     /\ \A c \in pendingCancel \ pendingCancel' :
          Exists(c.id) /\ posts[c.id].createdBy # c.by =>
            (c.id \in scheduledJobs => c.id \in scheduledJobs')]_vars

ScheduledIds == {i \in Ids : posts[i].status = "scheduled"}

\* C24: when a loadScheduledPosts call completes, scheduledJobs holds exactly
\* the ids of the posts the store then holds as scheduled, those already due
\* included.
C24_LoadGivesScheduled ==
  [][loads \ loads' # {} => scheduledJobs' = ScheduledIds']_vars

\* no operation is in flight
Quiescent ==
  /\ \A t \in TickIds : ticks[t].pc = "idle"
  /\ pendingSchedule = {}
  /\ pendingCancel = {}
  /\ loads = {}

\* C26: whenever no operation is in flight, every id in scheduledJobs is that
\* of a post the store holds as scheduled.
C26_CacheHoldsScheduled ==
  Quiescent => scheduledJobs \subseteq ScheduledIds

\* C27: once a reload and the schedulePost and cancelScheduledPost calls that
\* overlapped it have all completed, a post scheduled for the future is in
\* scheduledJobs and a cancelled post is not.
C27_ReloadKeepsUpdates ==
  Quiescent =>
    \A i \in Ids :
      /\ posts[i].status = "scheduled" /\ posts[i].scheduledDate > now =>
           i \in scheduledJobs
      /\ posts[i].status = "cancelled" => i \notin scheduledJobs

\* C29: within one tick an error on one due post, that of the write marking
\* it failed included, does not keep the tick from going on to the remaining
\* due posts, and a step on one due post changes no other post's record.
C29_ErrorSparesOtherPosts ==
  [][\A t \in TickIds :
       ticks[t].pc # "idle" /\ ticks'[t] # ticks[t] =>
         /\ ticks'[t].pc = "idle" => Len(ticks[t].due) = 1
         /\ \A j \in Ids \ {Cur(t).id} : posts'[j] = posts[j]]_vars

\* C28: whatever the number and interleaving of initialize calls, at most one
\* periodic timer is ever started, and an initialize whose reload fails
\* starts no timer and does not set isInitialized.
C28_OneTimer ==
  [][/\ timers' <= 1
     /\ (\E l \in loads : LoadThrow(l)) =>
          timers' = timers /\ isInitialized' = isInitialized]_vars

\* C30: with the timer firing, the store available and the adapters
\* returning, a post that is scheduled with its date passed, or publishing,
\* eventually is published or failed.
C30_DuePostSettles ==
  \A i \in Ids :
    (/\ timers >= 1
     /\ \/ posts[i].status = "scheduled" /\ posts[i].scheduledDate <= now
        \/ posts[i].status = "publishing")
      ~> posts[i].status \in {"published", "failed"}

\* a post whose date had passed has been taken through a tick to published
C30_Witness ==
  \E i \in Ids :
    /\ timers >= 1
    /\ posts[i].status = "published"
    /\ posts[i].scheduledDate >= 0 /\ posts[i].scheduledDate <= now
    /\ posts[i].publishedDate >= posts[i].scheduledDate
    /\ invoked[i] # {}

====
